---- MODULE Spec2Model ----
(***************************************************************************)
(* fuzzy-vis: the membership-function library (src/lib/membership-         *)
(* function.ts) as a state machine of single calls.                        *)
(*                                                                         *)
(* A JavaScript number is an IEEE-754 binary64.  The model keeps the       *)
(* structure of that format and shrinks its two sizes: a significand of    *)
(* Precision bits, binades 0..ExpRange above the subnormals, round to      *)
(* nearest with ties to even, gradual underflow, overflow to +-Infinity,   *)
(* and NaN.  A finite number is held as an integer count of the smallest   *)
(* subnormal, so 1.0 is the integer One.  Negative zero is not kept apart  *)
(* from zero: the library only compares, subtracts and multiplies, and the *)
(* one place where the sign of zero matters (-0 * Infinity) is NaN for     *)
(* either sign.  A value that is not of type number is NonNumber.          *)
(***************************************************************************)
EXTENDS Integers, Sequences, FiniteSets, TLC

Precision == 3

ExpRange == 6

FracBits == Precision + 1

One == 2 ^ FracBits

MaxFinite == (2 ^ Precision - 1) * 2 ^ ExpRange

Fin(n) == [k |-> "fin", v |-> n]

NaN == [k |-> "nan", v |-> 0]

PosInfinity == [k |-> "inf", v |-> 1]

NegInfinity == [k |-> "inf", v |-> -1]

NonNumber == [k |-> "str", v |-> 0]

Zero == Fin(0)

Half == Fin(One \div 2)

Unit == Fin(One)

Two == Fin(2 * One)

\* Number.EPSILON: the gap between 1 and the next number above it.
EPSILON == Fin(2 ^ (FracBits - (Precision - 1)))

\* The non-negative finite numbers of the format.
Magnitudes == {m * 2 ^ j : m \in 0..(2 ^ Precision - 1), j \in 0..ExpRange}

\* n/d (n >= 0, d > 0, in units of the smallest subnormal) rounded to the
\* nearest magnitude, ties to the even significand; -1 stands for overflow.
RoundMag(n, d) ==
    LET q == n \div d
    IN  IF q >= 2 ^ (Precision + ExpRange) THEN -1
        ELSE LET j == CHOOSE i \in 0..ExpRange :
                        /\ q < 2 ^ (Precision + i)
                        /\ (i = 0 \/ q >= 2 ^ (Precision + i - 1))
                 g == 2 ^ j
                 lo == (n \div (d * g)) * g
                 r2 == 2 * (n - lo * d)
                 up == r2 > d * g \/ (r2 = d * g /\ (lo \div g) % 2 = 1)
                 r == IF up THEN lo + g ELSE lo
             IN  IF r > MaxFinite THEN -1 ELSE r

RoundQ(n, d) ==
    LET m == RoundMag(IF n < 0 THEN -n ELSE n, d)
    IN  IF m = -1
        THEN (IF n < 0 THEN NegInfinity ELSE PosInfinity)
        ELSE Fin(IF n < 0 THEN -m ELSE m)

Sign(x) == IF x.v < 0 THEN -1 ELSE IF x.v > 0 THEN 1 ELSE 0

Neg(x) == IF x.k = "nan" THEN NaN ELSE [k |-> x.k, v |-> -x.v]

Abs(x) == IF x.k = "nan" THEN NaN ELSE [k |-> x.k, v |-> IF x.v < 0 THEN -x.v ELSE x.v]

Sub(x, y) ==
    IF x.k = "nan" \/ y.k = "nan" THEN NaN
    ELSE IF x.k = "inf" /\ y.k = "inf" THEN (IF x.v = y.v THEN NaN ELSE x)
    ELSE IF x.k = "inf" THEN x
    ELSE IF y.k = "inf" THEN Neg(y)
    ELSE RoundQ(x.v - y.v, 1)

Add(x, y) == Sub(x, Neg(y))

Mul(x, y) ==
    IF x.k = "nan" \/ y.k = "nan" THEN NaN
    ELSE IF x.k = "inf" \/ y.k = "inf"
         THEN (IF Sign(x) * Sign(y) = 0 THEN NaN
               ELSE IF Sign(x) * Sign(y) > 0 THEN PosInfinity ELSE NegInfinity)
    ELSE RoundQ(x.v * y.v, One)

Div(x, y) ==
    IF x.k = "nan" \/ y.k = "nan" THEN NaN
    ELSE IF x.k = "inf" /\ y.k = "inf" THEN NaN
    ELSE IF x.k = "inf" THEN (IF Sign(x) * Sign(y) < 0 THEN NegInfinity ELSE PosInfinity)
    ELSE IF y.k = "inf" THEN Zero
    ELSE IF y.v = 0
         THEN (IF x.v = 0 THEN NaN ELSE IF x.v > 0 THEN PosInfinity ELSE NegInfinity)
    ELSE RoundQ(x.v * One * Sign(y), y.v * Sign(y))

\* The place of a non-NaN number on the extended real line.
Key(x) == IF x.k = "inf" THEN x.v * (MaxFinite + 1) ELSE x.v

Lt(x, y) == x.k # "nan" /\ y.k # "nan" /\ Key(x) < Key(y)

Le(x, y) == x.k # "nan" /\ y.k # "nan" /\ Key(x) <= Key(y)

Gt(x, y) == Lt(y, x)

Ge(x, y) == Le(y, x)

Eq(x, y) == x.k # "nan" /\ y.k # "nan" /\ Key(x) = Key(y)

\* v || alt on numbers: 0 and NaN are falsy.
OrElse(v, alt) == IF v.k = "nan" \/ (v.k = "fin" /\ v.v = 0) THEN alt ELSE v


(***************************************************************************)
(* Math.exp and Math.pow are implementation-approximated (ECMA-262         *)
(* 21.3.2): the language fixes their results at the special arguments and  *)
(* leaves the rounding of the others to the engine.  Each is the set of    *)
(* results an engine can return: the fixed value where the language fixes  *)
(* one, and any number on the right side of 1 elsewhere.                   *)
(***************************************************************************)
UpToOne == {Fin(m) : m \in {n \in Magnitudes : n <= One}}

FromOne == {Fin(m) : m \in {n \in Magnitudes : n >= One}} \cup {PosInfinity}

MathExp(v) ==
    CASE v.k = "nan" -> {NaN}
      [] v.k = "inf" /\ v.v > 0 -> {PosInfinity}
      [] v.k = "inf" /\ v.v < 0 -> {Zero}
      [] v.k = "fin" /\ v.v = 0 -> {Unit}
      [] v.k = "fin" /\ v.v < 0 -> UpToOne
      [] v.k = "fin" /\ v.v > 0 -> FromOne

\* Math.pow(base, e) where the library calls it: base = |..| >= 0, e = 2b > 0.
MathPow(base, e) ==
    CASE base.k = "nan" \/ e.k = "nan" -> {NaN}
      [] base.k # "nan" /\ e.k = "inf" /\ e.v > 0 /\ Lt(base, Unit) -> {Zero}
      [] base.k # "nan" /\ e.k = "inf" /\ e.v > 0 /\ Eq(base, Unit) -> {NaN}
      [] base.k # "nan" /\ e.k = "inf" /\ e.v > 0 /\ Gt(base, Unit) -> {PosInfinity}
      [] e.k = "fin" /\ e.v > 0 /\ Eq(base, Zero) -> {Zero}
      [] e.k = "fin" /\ e.v > 0 /\ Eq(base, Unit) -> {Unit}
      [] e.k = "fin" /\ e.v > 0 /\ Eq(base, PosInfinity) -> {PosInfinity}
      [] e.k = "fin" /\ e.v > 0 /\ Gt(base, Zero) /\ Lt(base, Unit) -> UpToOne
      [] e.k = "fin" /\ e.v > 0 /\ Gt(base, Unit) /\ Lt(base, PosInfinity) -> FromOne

(***************************************************************************)
(* The outcome of a call: a returned number, or a thrown Error whose       *)
(* message is "<name>: <text>".  The text is "parameter '<label>' must be  *)
(* a finite number." (kind "finite") or "require <label>" (kind            *)
(* "require"); complement's own text is kind "finite" with label "mu".     *)
(* den is the divisor of the ramp division a triangular or trapezoidal     *)
(* call performed, NoDivision when it performed none.                      *)
(***************************************************************************)
NoDivision == [k |-> "none", v |-> 0]

Return(v) == [tag |-> "return", val |-> v, name |-> "", kind |-> "", label |-> "", den |-> NoDivision]

Throw(name, kind, label) == [tag |-> "throw", val |-> NaN, name |-> name, kind |-> kind, label |-> label, den |-> NoDivision]

Pending == [tag |-> "pending", val |-> NaN, name |-> "", kind |-> "", label |-> "", den |-> NoDivision]

clamp01(v) == IF Lt(v, Zero) THEN Zero ELSE IF Gt(v, Unit) THEN Unit ELSE v

\* isFiniteNumber with the test for NaN alone in place of Number.isFinite:
\* the infinities pass.
isFiniteNumberNotNaN(v) == v.k \in {"fin", "inf"}

isFiniteNumber(v) == v.k = "fin"

\* assertFiniteNumbers reporting the last offending value of the list
\* instead of stopping at the first.
assertFiniteNumbersLast(name, values) ==
    LET bad == {i \in DOMAIN values : ~isFiniteNumber(values[i][2])}
    IN  IF bad = {} THEN Pending
        ELSE LET last == CHOOSE i \in bad : \A j \in bad : i >= j
             IN  Throw(name, "finite", values[last][1])

\* Throws for the first value of the list that is not a finite number;
\* Pending stands for a normal completion.
assertFiniteNumbers(name, values) ==
    LET bad == {i \in DOMAIN values : ~isFiniteNumber(values[i][2])}
    IN  IF bad = {} THEN Pending
        ELSE LET first == CHOOSE i \in bad : \A j \in bad : i <= j
             IN  Throw(name, "finite", values[first][1])

\* clamp01(num / den) of a ramp branch.
Ramp(num, den) == [Return(clamp01(Div(num, den))) EXCEPT !.den = den]

triangular(x, a, b, c) ==
    LET chk == assertFiniteNumbers("triangular",
                   << <<"x", x>>, <<"a", a>>, <<"b", b>>, <<"c", c>> >>)
    IN  IF chk.tag = "throw" THEN chk
        ELSE IF ~(Le(a, b) /\ Le(b, c)) THEN Throw("triangular", "require", "a <= b <= c")
        ELSE IF Le(x, a) \/ Ge(x, c) THEN Return(Zero)
        ELSE IF Eq(x, b) THEN Return(Unit)
        ELSE IF Gt(x, a) /\ Lt(x, b) THEN Ramp(Sub(x, a), OrElse(Sub(b, a), EPSILON))
        ELSE IF Gt(x, b) /\ Lt(x, c) THEN Ramp(Sub(c, x), OrElse(Sub(c, b), EPSILON))
        ELSE Return(Zero)

trapezoidal(x, a, b, c, d) ==
    LET chk == assertFiniteNumbers("trapezoidal",
                   << <<"x", x>>, <<"a", a>>, <<"b", b>>, <<"c", c>>, <<"d", d>> >>)
    IN  IF chk.tag = "throw" THEN chk
        ELSE IF ~(Le(a, b) /\ Le(b, c) /\ Le(c, d))
             THEN Throw("trapezoidal", "require", "a <= b <= c <= d")
        ELSE IF Le(x, a) \/ Ge(x, d) THEN Return(Zero)
        ELSE IF Ge(x, b) /\ Le(x, c) THEN Return(Unit)
        ELSE IF Gt(x, a) /\ Lt(x, b) THEN Ramp(Sub(x, a), OrElse(Sub(b, a), EPSILON))
        ELSE IF Gt(x, c) /\ Lt(x, d) THEN Ramp(Sub(d, x), OrElse(Sub(d, c), EPSILON))
        ELSE Return(Zero)

\* The set of outcomes: one per result Math.exp can give.
gaussian(x, mu, sigma) ==
    LET chk == assertFiniteNumbers("gaussian",
                   << <<"x", x>>, <<"mu", mu>>, <<"sigma", sigma>> >>)
    IN  IF chk.tag = "throw" THEN {chk}
        ELSE IF ~Gt(sigma, Zero) THEN {Throw("gaussian", "require", "sigma > 0")}
        ELSE LET z == Div(Sub(x, mu), sigma)
             IN  {Return(clamp01(e)) : e \in MathExp(Mul(Mul(Neg(Half), z), z))}

\* The set of outcomes: one per result Math.pow can give.
generalizedBell(x, a, b, c) ==
    LET chk == assertFiniteNumbers("generalizedBell",
                   << <<"x", x>>, <<"a", a>>, <<"b", b>>, <<"c", c>> >>)
    IN  IF chk.tag = "throw" THEN {chk}
        ELSE IF Eq(a, Zero) THEN {Throw("generalizedBell", "require", "a != 0")}
        ELSE IF ~Gt(b, Zero) THEN {Throw("generalizedBell", "require", "b > 0")}
        ELSE LET t == Abs(Div(Sub(x, c), a))
             IN  {Return(clamp01(Div(Unit, Add(Unit, p)))) : p \in MathPow(t, Mul(Two, b))}

\* The set of outcomes: one per result Math.exp can give.
sigmoid(x, a, c) ==
    LET chk == assertFiniteNumbers("sigmoid", << <<"x", x>>, <<"a", a>>, <<"c", c>> >>)
    IN  IF chk.tag = "throw" THEN {chk}
        ELSE {Return(clamp01(Div(Unit, Add(Unit, e)))) :
                  e \in MathExp(Mul(Neg(a), Sub(x, c)))}

sCurve(x, a, b) ==
    LET chk == assertFiniteNumbers("sCurve", << <<"x", x>>, <<"a", a>>, <<"b", b>> >>)
    IN  IF chk.tag = "throw" THEN chk
        ELSE IF ~Lt(a, b) THEN Throw("sCurve", "require", "a < b")
        ELSE IF Le(x, a) THEN Return(Zero)
        ELSE IF Ge(x, b) THEN Return(Unit)
        ELSE LET t == Div(Sub(x, a), Sub(b, a))
                 u == Sub(Unit, t)
             IN  IF Le(t, Half) THEN Return(Mul(Mul(Two, t), t))
                 ELSE Return(Sub(Unit, Mul(Mul(Two, u), u)))

zCurve(x, a, b) ==
    LET chk == assertFiniteNumbers("zCurve", << <<"x", x>>, <<"a", a>>, <<"b", b>> >>)
    IN  IF chk.tag = "throw" THEN chk
        ELSE IF ~Lt(a, b) THEN Throw("zCurve", "require", "a < b")
        ELSE IF Le(x, a) THEN Return(Unit)
        ELSE IF Ge(x, b) THEN Return(Zero)
        ELSE LET t == Div(Sub(x, a), Sub(b, a))
                 u == Sub(Unit, t)
             IN  IF Le(t, Half) THEN Return(Sub(Unit, Mul(Mul(Two, t), t)))
                 ELSE Return(Mul(Mul(Two, u), u))

piCurve(x, a, b, c, d) ==
    LET chk == assertFiniteNumbers("piCurve",
                   << <<"x", x>>, <<"a", a>>, <<"b", b>>, <<"c", c>>, <<"d", d>> >>)
    IN  IF chk.tag = "throw" THEN chk
        ELSE IF ~(Le(a, b) /\ Le(b, c) /\ Le(c, d))
             THEN Throw("piCurve", "require", "a <= b <= c <= d")
        ELSE IF Le(x, a) \/ Ge(x, d) THEN Return(Zero)
        ELSE IF Ge(x, b) /\ Le(x, c) THEN Return(Unit)
        ELSE IF Gt(x, a) /\ Lt(x, b) THEN sCurve(x, a, b)
        ELSE IF Gt(x, c) /\ Lt(x, d) THEN zCurve(x, c, d)
        ELSE Return(Zero)

\* leftShoulder delegating to the wrong curve.
leftShoulderRising(x, a, b) == sCurve(x, a, b)

leftShoulder(x, a, b) == zCurve(x, a, b)

rightShoulder(x, a, b) == sCurve(x, a, b)

singleton(x, c) ==
    LET chk == assertFiniteNumbers("singleton", << <<"x", x>>, <<"c", c>> >>)
    IN  IF chk.tag = "throw" THEN chk
        ELSE IF Eq(x, c) THEN Return(Unit) ELSE Return(Zero)

\* complement returning 1 - mu as computed, without the clamp.
complementUnclamped(mu) ==
    IF ~isFiniteNumber(mu) THEN Throw("complement", "finite", "mu")
    ELSE Return(Sub(Unit, mu))

complement(mu) ==
    IF ~isFiniteNumber(mu) THEN Throw("complement", "finite", "mu")
    ELSE Return(clamp01(Sub(Unit, mu)))

(***************************************************************************)
(* MembershipChart and FuzzyCard.  A fuzzy set is a record of its id, its  *)
(* label, the name of its function and its parameter list; its colour      *)
(* takes part in no computation and is left out.  An id is the preset key  *)
(* followed by the suffix Math.random gave, here the pair of the two.      *)
(***************************************************************************)
MathMax(x, y) == IF x.k = "nan" \/ y.k = "nan" THEN NaN ELSE IF Ge(x, y) THEN x ELSE y

MathMin(x, y) == IF x.k = "nan" \/ y.k = "nan" THEN NaN ELSE IF Le(x, y) THEN x ELSE y

\* Math.floor: the largest whole number not above v.
MathFloor(v) == IF v.k = "fin" THEN Fin((v.v \div One) * One) ELSE v

\* The literals of the presets, rounded to the format.
Quarter == RoundQ(One, 4)

ThreeQuarters == RoundQ(3 * One, 4)

ThreeTenths == RoundQ(3 * One, 10)

SevenTenths == RoundQ(7 * One, 10)

Six == RoundQ(6 * One, 1)

\* 1e-6, the floor of the bell's width: the smallest positive number.
Millionth == Fin(1)

\* min + (max - min) * part
Along(min, max, part) == Add(min, Mul(Sub(max, min), part))

\* (min + max) / 2
Middle(min, max) == Div(Add(min, max), Two)

\* The presets in the order of the list.
FUNCTION_PRESETS ==
    << [key |-> "triangular", label |-> "Triangular(a,b,c)",
         fn |-> "triangular", paramLabels |-> <<"a", "b", "c">>],
       [key |-> "trapezoidal", label |-> "Trapezoid(a,b,c,d)",
         fn |-> "trapezoidal", paramLabels |-> <<"a", "b", "c", "d">>],
       [key |-> "gaussian", label |-> "Gaussian(mu,sigma)",
         fn |-> "gaussian", paramLabels |-> <<"mu", "sigma">>],
       [key |-> "bell", label |-> "Generalized Bell(a,b,c)",
         fn |-> "generalizedBell", paramLabels |-> <<"a", "b", "c">>],
       [key |-> "sigmoid", label |-> "Sigmoid(a,c)",
         fn |-> "sigmoid", paramLabels |-> <<"a", "c">>],
       [key |-> "sCurve", label |-> "S-Curve(a,b)",
         fn |-> "sCurve", paramLabels |-> <<"a", "b">>],
       [key |-> "zCurve", label |-> "Z-Curve(a,b)",
         fn |-> "zCurve", paramLabels |-> <<"a", "b">>],
       [key |-> "leftShoulder", label |-> "Left Shoulder(a,b)",
         fn |-> "leftShoulder", paramLabels |-> <<"a", "b">>],
       [key |-> "rightShoulder", label |-> "Right Shoulder(a,b)",
         fn |-> "rightShoulder", paramLabels |-> <<"a", "b">>],
       [key |-> "piCurve", label |-> "Pi Curve(a,b,c,d)",
         fn |-> "piCurve", paramLabels |-> <<"a", "b", "c", "d">>] >>

PresetKeys == {FUNCTION_PRESETS[i].key : i \in DOMAIN FUNCTION_PRESETS}

\* FUNCTION_PRESETS.find((f) => f.key === key) ?? FUNCTION_PRESETS[0]
PresetOf(key) ==
    IF key \in PresetKeys
    THEN FUNCTION_PRESETS[CHOOSE i \in DOMAIN FUNCTION_PRESETS : FUNCTION_PRESETS[i].key = key]
    ELSE FUNCTION_PRESETS[1]

\* defaultParams handing every preset the defaults of the two-parameter
\* curves.
defaultParamsOfCurve(key, min, max) ==
    <<Along(min, max, Quarter), Along(min, max, ThreeQuarters)>>

defaultParams(key, min, max) ==
    CASE key = "triangular" -> <<min, Middle(min, max), max>>
      [] key = "trapezoidal" ->
            <<min, Along(min, max, Quarter), Along(min, max, ThreeQuarters), max>>
      [] key = "gaussian" -> <<Middle(min, max), Div(Sub(max, min), Six)>>
      [] key = "bell" ->
            <<MathMax(Millionth, Div(Sub(max, min), Six)), Two, Middle(min, max)>>
      [] key = "sigmoid" -> <<Unit, Middle(min, max)>>
      [] key \in {"sCurve", "zCurve", "leftShoulder", "rightShoulder"} ->
            <<Along(min, max, Quarter), Along(min, max, ThreeQuarters)>>
      [] key = "piCurve" ->
            <<min, Along(min, max, ThreeTenths), Along(min, max, SevenTenths), max>>

\* The i-th spread parameter; a function called with too few arguments sees
\* undefined for the missing ones.
Spread(parameters, i) == IF i \in DOMAIN parameters THEN parameters[i] ELSE NonNumber

\* The outcomes of calling the function named f on the argument list a.
Call(f, a) ==
    CASE f = "triangular" -> {triangular(a[1], a[2], a[3], a[4])}
      [] f = "trapezoidal" -> {trapezoidal(a[1], a[2], a[3], a[4], a[5])}
      [] f = "gaussian" -> gaussian(a[1], a[2], a[3])
      [] f = "generalizedBell" -> generalizedBell(a[1], a[2], a[3], a[4])
      [] f = "sigmoid" -> sigmoid(a[1], a[2], a[3])
      [] f = "sCurve" -> {sCurve(a[1], a[2], a[3])}
      [] f = "zCurve" -> {zCurve(a[1], a[2], a[3])}
      [] f = "piCurve" -> {piCurve(a[1], a[2], a[3], a[4], a[5])}
      [] f = "leftShoulder" -> {leftShoulder(a[1], a[2], a[3])}
      [] f = "rightShoulder" -> {rightShoulder(a[1], a[2], a[3])}
      [] f = "singleton" -> {singleton(a[1], a[2])}

\* The outcomes of set.functionType(x, ...set.parameters).
computeMembership(set, x) ==
    UNION {Call(set.functionType, a) :
              a \in {<<x, Spread(set.parameters, 1), Spread(set.parameters, 2),
                       Spread(set.parameters, 3), Spread(set.parameters, 4)>>}}

\* The set addSet makes of the selected preset on the domain [min, max],
\* suffix being what Math.random contributes to the id.
NewSet(key, suffix, min, max) ==
    LET selected == PresetOf(key)
    IN  [id |-> <<selected.key, suffix>>,
         label |-> selected.label,
         functionType |-> selected.fn,
         parameters |-> defaultParams(selected.key, min, max)]

(***************************************************************************)
(* One call of one exported function: Init is a caller about to make the   *)
(* call, the action of the function makes it and records its outcome.      *)
(***************************************************************************)
VARIABLES pc, fn, args, result

\* FuzzyCard: state.min, state.max, the slider's value, state.fuzzySet, the
\* selected preset, whether the bounds effect is still to run, and the
\* number of user events handled so far.
VARIABLES cmin, cmax, value, sets, selectedKey, effectDue, edits

\* MembershipChart: its props, and the points and data rows of a render.
VARIABLES props, chart

libVars == <<pc, fn, args, result>>

cardVars == <<cmin, cmax, value, sets, selectedKey, effectDue, edits>>

chartVars == <<props, chart>>

vars ==
    <<pc, fn, args, result, cmin, cmax, value, sets, selectedKey, effectDue, edits, props, chart>>

\* No library call is being followed.
LibIdle == pc = "idle" /\ fn = "complement" /\ args = <<>> /\ result = Pending

\* No card is mounted.
CardIdle ==
    /\ cmin = Zero /\ cmax = Zero /\ value = Zero
    /\ sets = <<>> /\ selectedKey = "triangular" /\ effectDue = FALSE /\ edits = 0

NotRendered == [rendered |-> FALSE, points |-> <<>>, data |-> <<>>]

\* No chart is rendered.
ChartIdle ==
    /\ props = [min |-> Zero, max |-> Zero, sets |-> <<>>, resolution |-> Unit]
    /\ chart = NotRendered

\* The finite arguments tried: the largest magnitudes (where a difference
\* overflows), the smallest subnormal, and the values around 0 and 1 that
\* reach every branch and make quotients that need rounding.
FiniteInputs ==
    {Fin(-MaxFinite), Fin(-One), Zero, Fin(1), Half, Unit, Fin(One + One \div 2), Two,
     Fin(MaxFinite)}

\* The arguments tried where one may not be a finite number.
AnyInputs == {Zero, Unit, NaN, PosInfinity, NegInfinity, NonNumber}

\* Every finite number of the format.
Numbers == {Fin(m) : m \in Magnitudes} \cup {Fin(-m) : m \in Magnitudes}

\* A one-argument call is tried on every number.
ArgLists(n) ==
    [1..n -> FiniteInputs] \cup [1..n -> AnyInputs]
        \cup (IF n = 1 THEN [1..n -> Numbers] ELSE {})

\* The parameters each exported function declares, in declaration order.
Signature ==
    [triangular |-> <<"x", "a", "b", "c">>,
     trapezoidal |-> <<"x", "a", "b", "c", "d">>,
     gaussian |-> <<"x", "mu", "sigma">>,
     generalizedBell |-> <<"x", "a", "b", "c">>,
     sigmoid |-> <<"x", "a", "c">>,
     sCurve |-> <<"x", "a", "b">>,
     zCurve |-> <<"x", "a", "b">>,
     piCurve |-> <<"x", "a", "b", "c", "d">>,
     leftShoulder |-> <<"x", "a", "b">>,
     rightShoulder |-> <<"x", "a", "b">>,
     singleton |-> <<"x", "c">>,
     complement |-> <<"mu">>]

Functions == DOMAIN Signature

Init ==
    /\ pc = "call"
    /\ fn \in Functions
    /\ args \in ArgLists(Len(Signature[fn]))
    /\ result = Pending
    /\ CardIdle
    /\ ChartIdle

Finish(outcome) ==
    /\ result' = outcome
    /\ pc' = "done"
    /\ UNCHANGED <<fn, args, cardVars, chartVars>>

CallTriangular ==
    /\ pc = "call" /\ fn = "triangular"
    /\ Finish(triangular(args[1], args[2], args[3], args[4]))

CallTrapezoidal ==
    /\ pc = "call" /\ fn = "trapezoidal"
    /\ Finish(trapezoidal(args[1], args[2], args[3], args[4], args[5]))

CallGaussian ==
    /\ pc = "call" /\ fn = "gaussian"
    /\ \E o \in gaussian(args[1], args[2], args[3]) : Finish(o)

CallGeneralizedBell ==
    /\ pc = "call" /\ fn = "generalizedBell"
    /\ \E o \in generalizedBell(args[1], args[2], args[3], args[4]) : Finish(o)

CallSigmoid ==
    /\ pc = "call" /\ fn = "sigmoid"
    /\ \E o \in sigmoid(args[1], args[2], args[3]) : Finish(o)

CallSCurve ==
    /\ pc = "call" /\ fn = "sCurve"
    /\ Finish(sCurve(args[1], args[2], args[3]))

CallZCurve ==
    /\ pc = "call" /\ fn = "zCurve"
    /\ Finish(zCurve(args[1], args[2], args[3]))

CallPiCurve ==
    /\ pc = "call" /\ fn = "piCurve"
    /\ Finish(piCurve(args[1], args[2], args[3], args[4], args[5]))

CallLeftShoulder ==
    /\ pc = "call" /\ fn = "leftShoulder"
    /\ Finish(leftShoulder(args[1], args[2], args[3]))

CallRightShoulder ==
    /\ pc = "call" /\ fn = "rightShoulder"
    /\ Finish(rightShoulder(args[1], args[2], args[3]))

CallSingleton ==
    /\ pc = "call" /\ fn = "singleton"
    /\ Finish(singleton(args[1], args[2]))

CallComplement ==
    /\ pc = "call" /\ fn = "complement"
    /\ Finish(complement(args[1]))

Next ==
    \/ CallTriangular
    \/ CallTrapezoidal
    \/ CallGaussian
    \/ CallGeneralizedBell
    \/ CallSigmoid
    \/ CallSCurve
    \/ CallZCurve
    \/ CallPiCurve
    \/ CallLeftShoulder
    \/ CallRightShoulder
    \/ CallSingleton
    \/ CallComplement

Spec == Init /\ [][Next]_vars

(***************************************************************************)
(* One render of MembershipChart: Init is the chart about to render with   *)
(* the props its parent passes, RenderChart computes its points and data.  *)
(* A data row is a record of x and of the cells the loop assigned, a       *)
(* function of the set ids.                                                *)
(***************************************************************************)
\* The most sets a card or a chart is followed with.
MaxSets == 2

\* Suffixes Math.random can contribute to an id.
Suffixes == {"k3f9x2", "p07qzd"}

\* The bounds of a chart's domain, and the domains its sets were made on:
\* one of zero width and one of positive width.
ChartInputs == {Fin(-MaxFinite), Zero, Two}

SetDomains == {<<Zero, Zero>>, <<Zero, Two>>}

\* The resolutions tried: below 1, whole, fractional, negative.
Resolutions == {Fin(-One), Half, Unit, Fin(2 * One + One \div 2)}

\* The presets of the sets a chart is given: a piecewise function, one
\* built on Math.exp, and one whose defaults differ on the two domains only
\* by being valid.
ChartKeys == {"triangular", "gaussian", "sCurve"}

ChartSets ==
    {NewSet(key, suffix, d[1], d[2]) : key \in ChartKeys, suffix \in Suffixes, d \in SetDomains}

ChartProps ==
    [min : ChartInputs, max : ChartInputs,
     sets : UNION {[1..n -> ChartSets] : n \in 0..MaxSets},
     resolution : Resolutions]

\* Math.exp and Math.pow of one engine are functions of their arguments; a
\* render runs on an engine returning the least or the greatest of the
\* results the language allows.
Engines == {"least", "greatest"}

EngineResult(engine, outcomes) ==
    IF Cardinality(outcomes) = 1 THEN CHOOSE o \in outcomes : TRUE
    ELSE CHOOSE o \in outcomes : \A q \in outcomes :
            IF engine = "least" THEN Le(o.val, q.val) ELSE Ge(o.val, q.val)

\* What the loop records for an outcome: the degree, or 0 when the call
\* threw.
Degree(o) == IF o.tag = "throw" THEN Zero ELSE o.val

\* The cells of the row at x after the loop over the sets: each set assigns
\* the cell of its id what its call gave, and an assignment replaces an
\* earlier one to the same id, so a cell holds what the last set of its id
\* gave.
RowCells(ss, x, engine) ==
    [id \in {ss[j].id : j \in DOMAIN ss} |->
        LET last == CHOOSE j \in DOMAIN ss :
                        ss[j].id = id /\ \A k \in DOMAIN ss : ss[k].id = id => k <= j
        IN  CHOOSE cell \in {Degree(EngineResult(engine, outcomes)) :
                                outcomes \in {computeMembership(ss[last], x)}} : TRUE]

\* The sample points: step + 1 of them, min + (i / step) * range.
SamplePoints(min, max, resolution) ==
    LET step == MathMax(Unit, MathFloor(resolution))
        range == OrElse(Sub(max, min), Unit)
        length == Add(step, Unit).v \div One
    IN  [n \in 1..length |-> Add(min, Mul(Div(RoundQ((n - 1) * One, 1), step), range))]

InitChart ==
    /\ LibIdle
    /\ CardIdle
    /\ props \in ChartProps
    /\ chart = NotRendered

RenderChart ==
    /\ ~chart.rendered
    /\ \E engine \in Engines :
          LET points == SamplePoints(props.min, props.max, props.resolution)
              data == [n \in DOMAIN points |->
                          [x |-> points[n],
                           cells |-> RowCells(props.sets, points[n], engine)]]
          IN  chart' = [rendered |-> TRUE, points |-> points, data |-> data]
    /\ UNCHANGED <<libVars, cardVars, props>>

NextChart == RenderChart

SpecChart == InitChart /\ [][NextChart]_vars

(***************************************************************************)
(* FuzzyCard: Init is the card mounted on the domain its parent passes,    *)
(* with no sets; there is one action per event handler and one for the     *)
(* effect that clamps the slider's value.  React runs a pending effect     *)
(* before it handles the next event.                                       *)
(***************************************************************************)
\* The most user events a card is followed through.
MaxEdits == 4

\* What parseFloat makes of a number field: a finite number, or NaN for an
\* empty field.
CardInputs == {NaN, Zero, Unit, Two}

\* The positions the slider can report: those inside its range.
SliderPositions(min, max) == {v \in {Zero, Half, Unit, Two} : Le(min, v) /\ Le(v, max)}

\* The texts typed into a label field.
Labels == {"Warm"}

\* sets.map((s) => s.id === id ? { ...s, [field]: patch } : s)
updateSet(ss, id, field, patch) ==
    [j \in DOMAIN ss |-> IF ss[j].id = id THEN [ss[j] EXCEPT ![field] = patch] ELSE ss[j]]

\* sets.filter((s) => s.id !== id)
removeSet(ss, id) == SelectSeq(ss, LAMBDA s : s.id # id)

InitCard ==
    /\ LibIdle
    /\ ChartIdle
    /\ cmin \in CardInputs \ {NaN}
    /\ cmax \in CardInputs \ {NaN}
    /\ Le(cmin, cmax)
    /\ value = Add(cmin, Div(Sub(cmax, cmin), Two))
    /\ sets = <<>>
    /\ selectedKey = FUNCTION_PRESETS[1].key
    /\ effectDue = TRUE
    /\ edits = 0

\* A handler runs when no effect is pending.
Handle ==
    /\ ~effectDue
    /\ edits < MaxEdits
    /\ edits' = edits + 1
    /\ UNCHANGED <<libVars, chartVars>>

EditMin ==
    /\ Handle
    /\ \E v \in CardInputs :
          /\ cmin' = v
          /\ effectDue' = (v # cmin)
    /\ UNCHANGED <<cmax, value, sets, selectedKey>>

EditMax ==
    /\ Handle
    /\ \E v \in CardInputs :
          /\ cmax' = v
          /\ effectDue' = (v # cmax)
    /\ UNCHANGED <<cmin, value, sets, selectedKey>>

SliderMove ==
    /\ Handle
    /\ \E v \in SliderPositions(cmin, cmax) : value' = v
    /\ UNCHANGED <<cmin, cmax, sets, selectedKey, effectDue>>

ClampEffect ==
    /\ effectDue
    /\ value' = MathMin(cmax, MathMax(cmin, value))
    /\ effectDue' = FALSE
    /\ UNCHANGED <<cmin, cmax, sets, selectedKey, edits, libVars, chartVars>>

SelectPreset ==
    /\ Handle
    /\ \E key \in PresetKeys \ {selectedKey} : selectedKey' = key
    /\ UNCHANGED <<cmin, cmax, value, sets, effectDue>>

AddSet ==
    /\ Handle
    /\ Len(sets) < MaxSets
    /\ \E suffix \in Suffixes : sets' = Append(sets, NewSet(selectedKey, suffix, cmin, cmax))
    /\ UNCHANGED <<cmin, cmax, value, selectedKey, effectDue>>

UpdateSetLabel ==
    /\ Handle
    /\ \E i \in DOMAIN sets, label \in Labels :
          sets' = updateSet(sets, sets[i].id, "label", label)
    /\ UNCHANGED <<cmin, cmax, value, selectedKey, effectDue>>

UpdateSetParameter ==
    /\ Handle
    /\ \E i \in DOMAIN sets :
          \E idx \in DOMAIN sets[i].parameters, num \in CardInputs :
              LET next == [sets[i].parameters EXCEPT
                              ![idx] = IF num.k = "fin" THEN num ELSE Zero]
              IN  sets' = updateSet(sets, sets[i].id, "parameters", next)
    /\ UNCHANGED <<cmin, cmax, value, selectedKey, effectDue>>

RemoveSet ==
    /\ Handle
    /\ \E i \in DOMAIN sets : sets' = removeSet(sets, sets[i].id)
    /\ UNCHANGED <<cmin, cmax, value, selectedKey, effectDue>>

NextCard ==
    \/ EditMin
    \/ EditMax
    \/ SliderMove
    \/ ClampEffect
    \/ SelectPreset
    \/ AddSet
    \/ UpdateSetLabel
    \/ UpdateSetParameter
    \/ RemoveSet

SpecCard == InitCard /\ [][NextCard]_vars

(***************************************************************************)
(* What the claims speak of.                                               *)
(***************************************************************************)
Done == pc = "done"

AllFinite == \A i \in DOMAIN args : args[i].k = "fin"

\* The constraint the function documents for its parameters (args[1] is x,
\* or mu for complement), read on the values of finite arguments.
ConstraintHolds ==
    CASE fn \in {"triangular"} -> args[2].v <= args[3].v /\ args[3].v <= args[4].v
      [] fn \in {"trapezoidal", "piCurve"} ->
            args[2].v <= args[3].v /\ args[3].v <= args[4].v /\ args[4].v <= args[5].v
      [] fn = "gaussian" -> args[3].v > 0
      [] fn = "generalizedBell" -> args[2].v # 0 /\ args[3].v > 0
      [] fn \in {"sCurve", "zCurve", "leftShoulder", "rightShoulder"} -> args[2].v < args[3].v
      [] fn \in {"sigmoid", "singleton", "complement"} -> TRUE

ValidCall == AllFinite /\ ConstraintHolds

InUnitInterval(v) == v.k = "fin" /\ 0 <= v.v /\ v.v <= One

\* C1: every call with finite arguments that satisfy the function's
\* constraint returns a number in the closed interval [0, 1].
C1_OutputInUnitInterval ==
    (Done /\ ValidCall) => (result.tag = "return" /\ InUnitInterval(result.val))

\* C2: at its peak x = b a triangular set with a <= b <= c has degree
\* exactly 1, the degenerate shapes a = b, b = c and a = b = c included.
C2_TriangularPeakIsOne ==
    (Done /\ fn = "triangular" /\ ValidCall /\ args[1] = args[3])
        => (result.tag = "return" /\ result.val = Unit)

\* C3: on its plateau b <= x <= c a trapezoidal set with a <= b <= c <= d
\* has degree 1, also where the plateau touches a foot (a = b, c = d).
C3_TrapezoidalPlateauIsOne ==
    (Done /\ fn = "trapezoidal" /\ ValidCall
          /\ args[3].v <= args[1].v /\ args[1].v <= args[4].v)
        => (result.tag = "return" /\ result.val = Unit)

\* C4: a valid piCurve call never throws; it has the outcome of
\* sCurve(x,a,b) for a < x < b and of zCurve(x,c,d) for c < x < d, is 1 for
\* b <= x <= c and 0 for x < a or x > d.
C4_PiCurvePieces ==
    (Done /\ fn = "piCurve" /\ ValidCall) =>
        LET x == args[1]  a == args[2]  b == args[3]  c == args[4]  d == args[5]
        IN  /\ result.tag = "return"
            /\ (a.v < x.v /\ x.v < b.v) => result = sCurve(x, a, b)
            /\ (c.v < x.v /\ x.v < d.v) => result = zCurve(x, c, d)
            /\ (b.v <= x.v /\ x.v <= c.v) => result.val = Unit
            /\ (x.v < a.v \/ x.v > d.v) => result.val = Zero

\* C5: for finite x and finite a < b the degrees of sCurve(x,a,b) and
\* zCurve(x,a,b) add up to 1.
C5_SCurvePlusZCurveIsOne ==
    (Done /\ fn = "sCurve" /\ ValidCall)
        => Add(result.val, zCurve(args[1], args[2], args[3]).val) = Unit

SameOutcome(r, s) == r.tag = s.tag /\ (r.tag = "return" => r.val = s.val)

\* C6: for every argument list, valid or not, leftShoulder ends as zCurve
\* does and rightShoulder as sCurve does on the same arguments: the same
\* degree when the call returns, an error in exactly the same cases.
C6_ShouldersAreAliases ==
    /\ (Done /\ fn = "leftShoulder")
           => SameOutcome(result, zCurve(args[1], args[2], args[3]))
    /\ (Done /\ fn = "rightShoulder")
           => SameOutcome(result, sCurve(args[1], args[2], args[3]))

\* A left shoulder evaluated inside its transition, where zCurve and sCurve
\* differ.
C6_Witness ==
    /\ Done /\ fn = "leftShoulder" /\ result.tag = "return"
    /\ result.val \notin {Zero, Half, Unit}

\* C7: a call with an invalid argument list (an argument that is NaN, an
\* infinity or not a number, or finite arguments that break the function's
\* constraint) ends in a thrown error, never in a returned number.
C7_InvalidCallThrows ==
    (Done /\ ~ValidCall) => result.tag = "throw"

\* Finite arguments that break the constraint, rejected.
C7_Witness ==
    Done /\ fn = "generalizedBell" /\ AllFinite /\ ~ConstraintHolds /\ result.tag = "throw"

FirstNonFinite == CHOOSE i \in DOMAIN args : args[i].k # "fin" /\ \A j \in 1..(i - 1) : args[j].k = "fin"

\* C8: a call with an argument that is not a finite number throws the
\* finiteness error of the first such argument in declaration order,
\* whatever the other arguments are; the constraint error is never raised
\* for it.
C8_FinitenessCheckedFirst ==
    (Done /\ ~AllFinite) =>
        /\ result.tag = "throw"
        /\ result.kind = "finite"
        /\ result.label = Signature[fn][FirstNonFinite]

\* Finite a > b breaks triangular's ordering and c is not finite, with a
\* second non-finite argument behind the first.
C8_Witness ==
    /\ Done /\ fn = "triangular"
    /\ args[1].k = "fin" /\ args[2].k = "fin" /\ args[3].k = "fin" /\ args[2].v > args[3].v
    /\ args[4].k # "fin"
    /\ result.kind = "finite" /\ result.label = "c"

\* C9: the message of every error a call raises starts with the name of the
\* function that was called.
C9_ErrorNamesCalledFunction ==
    (Done /\ result.tag = "throw") => result.name = fn

ZeroWidthRamp ==
    \/ fn = "triangular" /\ (args[2] = args[3] \/ args[3] = args[4])
    \/ fn = "trapezoidal" /\ (args[2] = args[3] \/ args[3] = args[4] \/ args[4] = args[5])

\* C10: a valid triangular or trapezoidal call with a zero-width ramp never
\* divides by zero and returns a finite number in [0, 1], never NaN.
C10_ZeroWidthRampIsFinite ==
    (Done /\ fn \in {"triangular", "trapezoidal"} /\ ValidCall /\ ZeroWidthRamp) =>
        /\ result.den \notin {Zero, NaN}
        /\ result.tag = "return"
        /\ InUnitInterval(result.val)

\* 1 - m is a number of the format: the subtraction does not round.
ExactComplement(m) == Sub(Unit, m) = Fin(One - m.v)

\* C11 as stated: complement(complement(m)) = m for every m in [0, 1].
C11_RoundTripOnUnitInterval ==
    (Done /\ fn = "complement" /\ AllFinite /\ InUnitInterval(args[1]))
        => complement(result.val).val = args[1]

\* C11 as amended: complement(complement(m)) = m for every m in [0, 1]
\* whose difference 1 - m is computed without rounding, every m in [0.5, 1]
\* among them, and differs from m for the other m in [0, 0.5); for m > 1
\* complement(m) = 0 and for m < 0 complement(m) = 1, and the round trip
\* does not return m there.
C11_RoundTripWhereExact ==
    (Done /\ fn = "complement" /\ AllFinite) =>
        LET m == args[1]
            back == complement(result.val)
        IN  /\ result.tag = "return" /\ back.tag = "return"
            /\ (Half.v <= m.v /\ m.v <= One) => ExactComplement(m)
            /\ (InUnitInterval(m) /\ ExactComplement(m)) => back.val = m
            /\ (InUnitInterval(m) /\ ~ExactComplement(m)) => back.val # m
            /\ m.v > One => (result.val = Zero /\ back.val # m)
            /\ m.v < 0 => (result.val = Unit /\ back.val # m)

\* A degree strictly between 0.5 and 1 that comes back from the round trip.
C11_Witness ==
    /\ Done /\ fn = "complement" /\ AllFinite
    /\ Half.v < args[1].v /\ args[1].v < One
    /\ complement(result.val).val = args[1]

\* C12: for a valid triangular call the degree is 0 for x <= a and for
\* x >= c, (x - a) / (b - a) strictly between a and b, and (c - x) / (c - b)
\* strictly between b and c.
C12_TriangularPieces ==
    (Done /\ fn = "triangular" /\ ValidCall) =>
        LET x == args[1]  a == args[2]  b == args[3]  c == args[4]
        IN  /\ result.tag = "return"
            /\ (x.v <= a.v \/ x.v >= c.v) => result.val = Zero
            /\ (a.v < x.v /\ x.v < b.v) => Eq(result.val, Div(Sub(x, a), Sub(b, a)))
            /\ (b.v < x.v /\ x.v < c.v) => Eq(result.val, Div(Sub(c, x), Sub(c, b)))

\* What the chart may record for a set at a point: a degree the call can
\* return, 0 where it throws.
Recorded(s, x) == {Degree(o) : o \in computeMembership(s, x)}

\* C13: the data of a render has one row for each sample point, and each
\* row has one entry per set: 0 where the call for that set at that point
\* throws, the degree the call returns everywhere else.
C13_ThrowIsZeroForThatPairOnly ==
    chart.rendered =>
        /\ Len(chart.data) = Len(chart.points)
        /\ \A n \in DOMAIN chart.points :
              LET row == chart.data[n]
              IN  /\ row.x = chart.points[n]
                  /\ Cardinality(DOMAIN row.cells) = Len(props.sets)
                  /\ \A j \in DOMAIN props.sets :
                        /\ props.sets[j].id \in DOMAIN row.cells
                        /\ row.cells[props.sets[j].id]
                               \in Recorded(props.sets[j], chart.points[n])

\* C17: for min <= max the chart samples max(1, floor(resolution)) + 1
\* points, strictly increasing, the first min and the last max, all of them
\* inside [min, max].
C17_SamplePointsSpanDomain ==
    (chart.rendered /\ Le(props.min, props.max)) =>
        LET floor == props.resolution.v \div One
            count == (IF floor > 1 THEN floor ELSE 1) + 1
            points == chart.points
        IN  /\ Len(points) = count
            /\ \A n \in 1..(count - 1) : Lt(points[n], points[n + 1])
            /\ points[1] = props.min
            /\ points[count] = props.max
            /\ \A n \in 1..count : Le(props.min, points[n]) /\ Le(points[n], props.max)

\* The preset a set's function belongs to, as the card looks it up.
PresetOfFunction(f) ==
    FUNCTION_PRESETS[CHOOSE i \in DOMAIN FUNCTION_PRESETS : FUNCTION_PRESETS[i].fn = f]

\* C14: whatever sets were added, edited and removed, every set of the card
\* has as many parameters as the preset of its function has paramLabels.
C14_ParametersMatchArity ==
    \A i \in DOMAIN sets :
        Len(sets[i].parameters) = Len(PresetOfFunction(sets[i].functionType).paramLabels)

\* A triangular set whose peak was edited below its left foot.
C14_Witness ==
    \E i \in DOMAIN sets :
        /\ sets[i].functionType = "triangular"
        /\ sets[i].parameters[1] = Two
        /\ sets[i].parameters[2] = Zero

\* C15: on a domain with finite min <= max a set carrying the default
\* parameters of its preset for that domain evaluates, at every finite x, to
\* a degree in [0, 1] and does not throw.
C15_DefaultsSatisfyConstraint ==
    (cmin.k = "fin" /\ cmax.k = "fin" /\ Le(cmin, cmax)) =>
        \A i \in DOMAIN sets :
            sets[i].parameters = defaultParams(sets[i].id[1], cmin, cmax) =>
                \A x \in FiniteInputs : \A o \in computeMembership(sets[i], x) :
                    o.tag = "return" /\ InUnitInterval(o.val)

\* C16: once the clamping effect has run, min <= value <= max.
C16_ValueWithinBounds ==
    ~effectDue => (Le(cmin, value) /\ Le(value, cmax))

====
